---- MODULE Spec2Model ----
(***************************************************************************)
(* Markov-chain linguistic steganography (thesis_toolkit.pyx): the four    *)
(* step-driven sessions EnhancedEncoder, EnhancedDecoder, ExistingEncoder  *)
(* and ExistingDecoder over a shared, read-only markovify model.           *)
(*                                                                         *)
(* Text is modelled as Python models it: a str is a sequence of code       *)
(* points (ord values), a token is a str, a bitstream is a str of '0'/'1'  *)
(* (48/49).  A raised exception is recorded in the session's "raised"      *)
(* field together with the mutations made before the raise.                *)
(***************************************************************************)
EXTENDS Integers, Sequences, FiniteSets, TLC

VARIABLES model, ee, ed, xe, xd, ret, ghost, fn

vars == <<model, ee, ed, xe, xd, ret, ghost, fn>>

(***************************************************************************)
(* Bounds of the exploration.                                              *)
(***************************************************************************)
\* longest bitstream handed to an encoder
MaxBits == 3
\* an encoder is not stepped further once it has emitted this many tokens
MaxTokens == 6
\* most tokens of a stego text handed to a decoder directly
MaxTextTokens == 2
\* largest list size the code-length computations are applied to
MaxListLen == 40
\* longest "removed" bit group handed to _inject_end_key on its own
MaxRemoved == 27
\* longest candidate dict and greatest frequency handed to _get_transitions on
\* its own
MaxItems == 3
MaxFreq == 2
\* payload bits of each of two encoders run side by side
MaxSharedBits == 2

(***************************************************************************)
(* Python str / list primitives                                            *)
(***************************************************************************)
\* ord('a'), the base of the end-key marker
ORD_a == 97

\* Python None (current_gram before the first entry point) and "no object"
None == <<>>
NoSession == [cls |-> "none"]

\* s[:n]
Take(s, n) == IF n >= Len(s) THEN s ELSE IF n <= 0 THEN <<>> ELSE SubSeq(s, 1, n)

\* s[n:]
Drop(s, n) == IF n >= Len(s) THEN <<>> ELSE IF n <= 0 THEN s ELSE SubSeq(s, n + 1, Len(s))

\* s[-1] of a non-empty str
LastOf(s) == s[Len(s)]

\* s[:-1]
ButLast(s) == Take(s, Len(s) - 1)

\* x in lst
In(x, lst) == \E i \in DOMAIN lst : lst[i] = x

\* lst.index(x), 0-based, for x in lst
IndexOf(lst, x) == (CHOOSE i \in DOMAIN lst : lst[i] = x /\ \A j \in 1..(i - 1) : lst[j] # x) - 1

RECURSIVE Pow2(_)
\* 2 ** n
Pow2(n) == IF n <= 0 THEN 1 ELSE 2 * Pow2(n - 1)

RECURSIVE BinToInt(_)
\* int(s, 2) of a non-empty str of '0'/'1'
BinToInt(s) ==
    IF Len(s) = 0 THEN 0
    ELSE 2 * BinToInt(ButLast(s)) + (LastOf(s) - 48)

RECURSIVE Bin(_)
\* bin(n)[2:]
Bin(n) == IF n < 2 THEN <<48 + n>> ELSE Bin(n \div 2) \o <<48 + (n % 2)>>

RECURSIVE ZFill(_, _)
\* s.zfill(w): left-padded with '0' up to width w; unchanged when w <= len(s)
ZFill(s, w) == IF Len(s) >= w THEN s ELSE ZFill(<<48>> \o s, w)

RECURSIVE Join(_)
\* " ".join(tokens)
Join(tokens) ==
    IF Len(tokens) = 0 THEN <<>>
    ELSE IF Len(tokens) = 1 THEN tokens[1]
    ELSE tokens[1] \o <<32>> \o Join(Tail(tokens))

RECURSIVE SplitFrom(_, _)
SplitFrom(text, cur) ==
    IF Len(text) = 0 THEN <<cur>>
    ELSE IF Head(text) = 32 THEN <<cur>> \o SplitFrom(Tail(text), <<>>)
    ELSE SplitFrom(Tail(text), Append(cur, Head(text)))

\* text.split(" ")
Split(text) == SplitFrom(text, <<>>)

(***************************************************************************)
(* The markovify model: state_size and chain.model, an insertion-ordered   *)
(* dict from a state_size-tuple of tokens to an insertion-ordered dict     *)
(* token -> frequency.                                                     *)
(***************************************************************************)
\* "___BEGIN__"
BEGIN == <<95, 95, 95, 66, 69, 71, 73, 78, 95, 95>>
\* "___END__"
END == <<95, 95, 95, 69, 78, 68, 95, 95>>

\* model.chain.model.keys()
ModelKeys(m) == [i \in DOMAIN m.chain |-> m.chain[i].key]

\* gram in model.chain.model
HasGram(m, gram) == \E i \in DOMAIN m.chain : m.chain[i].key = gram

\* model.chain.model[gram].items(), for a gram of the model
Items(m, gram) == m.chain[CHOOSE i \in DOMAIN m.chain : m.chain[i].key = gram].next

\* dict.keys() of an items list
KeysOf(items) == [i \in DOMAIN items |-> items[i].tok]

\* key.count(x)
Count(key, x) == Cardinality({i \in DOMAIN key : key[i] = x})

\* [x] * n
RECURSIVE Repeat(_, _)
Repeat(x, n) == IF n <= 0 THEN <<>> ELSE <<x>> \o Repeat(x, n - 1)

(***************************************************************************)
(* Vocabulary and the models explored                                      *)
(***************************************************************************)
tA == <<97>>
tThe == <<116, 104, 101>>
tX == <<120>>
tXb == <<120, 98>>
tY == <<121>>
tP == <<112>>
tQ == <<113>>
tR == <<114>>
\* "p." ends in sentence punctuation
tPdot == <<112, 46>>
\* "wa": no token of any model, and no token of a model plus one letter
tWa == <<119, 97>>
\* "<1>": literal-escape shaped
tEsc1 == <<60, 49, 62>>

E(t, n) == [tok |-> t, n |-> n]
K(key, next) == [key |-> key, next |-> next]

\* k = 1; two entry points with tied frequency, a four-candidate context with
\* ties, a single-candidate context
ModelClean ==
    [state_size |-> 1,
     chain |-> << K(<<BEGIN>>, <<E(tX, 1), E(tY, 1)>>),
                  K(<<tX>>, <<E(tP, 1), E(tQ, 2), E(tR, 1), E(tY, 1)>>),
                  K(<<tY>>, <<E(tP, 1)>>),
                  K(<<tP>>, <<E(END, 3)>>),
                  K(<<tQ>>, <<E(END, 2)>>),
                  K(<<tR>>, <<E(END, 1)>>) >>]

\* k = 1; a single entry point (every sentence of the corpus starts with "x")
ModelOneEntry ==
    [state_size |-> 1,
     chain |-> << K(<<BEGIN>>, <<E(tX, 2)>>),
                  K(<<tX>>, <<E(tP, 1), E(tQ, 1)>>),
                  K(<<tP>>, <<E(END, 1)>>),
                  K(<<tQ>>, <<E(END, 1)>>) >>]

\* k = 1; "x" and "xb" are both entry points
ModelCollide ==
    [state_size |-> 1,
     chain |-> << K(<<BEGIN>>, <<E(tX, 1), E(tXb, 1)>>),
                  K(<<tX>>, <<E(END, 1)>>),
                  K(<<tXb>>, <<E(END, 1)>>) >>]

\* k = 2; the corpus {"the", "a"}: keys (START,START), (START,"the"), (START,"a")
ModelTheA ==
    [state_size |-> 2,
     chain |-> << K(<<BEGIN, BEGIN>>, <<E(tThe, 1), E(tA, 1)>>),
                  K(<<BEGIN, tThe>>, <<E(END, 1)>>),
                  K(<<BEGIN, tA>>, <<E(END, 1)>>) >>]

\* k = 2; three sentence starts, prefix-coded and single-candidate contexts,
\* a sentence-final token "p."
ModelK2 ==
    [state_size |-> 2,
     chain |-> << K(<<BEGIN, BEGIN>>, <<E(tX, 2), E(tY, 1), E(tR, 1)>>),
                  K(<<BEGIN, tX>>, <<E(tP, 2), E(tQ, 1), E(tPdot, 4)>>),
                  K(<<tX, tP>>, <<E(END, 2)>>),
                  K(<<tX, tQ>>, <<E(tR, 1)>>),
                  K(<<tQ, tR>>, <<E(END, 1)>>),
                  K(<<tX, tPdot>>, <<E(END, 3), E(tQ, 1)>>),
                  K(<<tPdot, tQ>>, <<E(END, 1)>>),
                  K(<<BEGIN, tY>>, <<E(tP, 1), E(tQ, 1)>>),
                  K(<<tY, tP>>, <<E(END, 1)>>),
                  K(<<tY, tQ>>, <<E(END, 1)>>),
                  K(<<BEGIN, tR>>, <<E(END, 1)>>) >>]

\* k = 2; every sentence of the corpus starts with "x"
ModelOneStart ==
    [state_size |-> 2,
     chain |-> << K(<<BEGIN, BEGIN>>, <<E(tX, 2)>>),
                  K(<<BEGIN, tX>>, <<E(tP, 1), E(tQ, 1)>>),
                  K(<<tX, tP>>, <<E(END, 1)>>),
                  K(<<tX, tQ>>, <<E(END, 1)>>) >>]

\* k = 2; a model file cut short: the contexts after the second token are
\* missing
ModelTruncated ==
    [state_size |-> 2,
     chain |-> << K(<<BEGIN, BEGIN>>, <<E(tX, 1), E(tY, 1)>>),
                  K(<<BEGIN, tX>>, <<E(tP, 1), E(tQ, 1)>>),
                  K(<<BEGIN, tY>>, <<E(tP, 1), E(tQ, 1)>>) >>]

\* k = 1; after "x" a sentence either ends or goes on with "p"
ModelMixed ==
    [state_size |-> 1,
     chain |-> << K(<<BEGIN>>, <<E(tX, 1), E(tY, 1)>>),
                  K(<<tX>>, <<E(END, 2), E(tP, 1)>>),
                  K(<<tY>>, <<E(tP, 1), E(tQ, 1)>>),
                  K(<<tP>>, <<E(END, 1)>>),
                  K(<<tQ>>, <<E(END, 1)>>) >>]

\* k = 1; lists of three: three entry points, three candidates after "x"
ModelThree ==
    [state_size |-> 1,
     chain |-> << K(<<BEGIN>>, <<E(tX, 1), E(tR, 1), E(tY, 1)>>),
                  K(<<tX>>, <<E(tP, 2), E(tR, 1), E(tQ, 1)>>),
                  K(<<tY>>, <<E(tP, 1)>>),
                  K(<<tP>>, <<E(END, 1)>>),
                  K(<<tQ>>, <<E(END, 1)>>),
                  K(<<tR>>, <<E(END, 1)>>) >>]

\* k = 2; the sentence-final token "p." in a context whose one candidate is
\* END and in a context that holds END and "q"
ModelPunct ==
    [state_size |-> 2,
     chain |-> << K(<<BEGIN, BEGIN>>, <<E(tX, 1), E(tY, 1)>>),
                  K(<<BEGIN, tX>>, <<E(tPdot, 1), E(tQ, 1)>>),
                  K(<<tX, tPdot>>, <<E(END, 2), E(tQ, 1)>>),
                  K(<<tPdot, tQ>>, <<E(END, 1)>>),
                  K(<<tX, tQ>>, <<E(END, 1)>>),
                  K(<<BEGIN, tY>>, <<E(tPdot, 1)>>),
                  K(<<tY, tPdot>>, <<E(END, 1)>>) >>]

Models == {ModelClean, ModelOneEntry, ModelCollide, ModelTheA, ModelK2, ModelOneStart,
           ModelTruncated, ModelMixed, ModelThree, ModelPunct}

RECURSIVE BitStringsOfLen(_)
BitStringsOfLen(n) ==
    IF n = 0 THEN {<<>>}
    ELSE {Append(s, b) : s \in BitStringsOfLen(n - 1), b \in {48, 49}}

\* the bitstreams handed to the encoders, the empty one included
BitStrings == UNION {BitStringsOfLen(n) : n \in 0..MaxBits}

(***************************************************************************)
(* Canonical code length, as each of the three places computes it          *)
(***************************************************************************)
RECURSIVE CeilLog2From(_, _)
CeilLog2From(n, b) == IF Pow2(b) >= n THEN b ELSE CeilLog2From(n, b + 1)

\* ceil(log2(n)) for n >= 1
CeilLog2(n) == CeilLog2From(n, 0)

EnhancedEncoder_bit_length_off(list_length) == CeilLog2(list_length)

\* EnhancedEncoder._consume_from_list: bit_length of a list of list_length >= 1
EnhancedEncoder_bit_length(list_length) ==
    LET bit_length == CeilLog2(list_length)
    IN  IF list_length < Pow2(bit_length) THEN bit_length - 1 ELSE bit_length

\* EnhancedDecoder._choose_entrypoint: bit_length of the entrypoints list
EnhancedDecoder_entry_bit_length(list_length) ==
    LET bit_length == CeilLog2(list_length)
    IN  IF list_length < Pow2(bit_length) THEN bit_length - 1 ELSE bit_length

\* EnhancedDecoder._choose_next_token: bit_length of the transitions list
EnhancedDecoder_next_bit_length(list_length) ==
    LET bit_length == CeilLog2(list_length)
    IN  IF list_length < Pow2(bit_length)
        THEN (IF list_length = 1 THEN 0 ELSE bit_length - 1)
        ELSE bit_length

(***************************************************************************)
(* sorted(items, key=frequency, reverse=True): CPython reverses the list,  *)
(* sorts it stably in ascending order and reverses the result, so equal    *)
(* frequencies keep their dict order.                                      *)
(***************************************************************************)
RECURSIVE Reverse(_)
Reverse(s) == IF Len(s) = 0 THEN <<>> ELSE Append(Reverse(Tail(s)), Head(s))

RECURSIVE InsertAsc(_, _)
\* e inserted into an ascending list, after every element that is not greater
InsertAsc(sorted, e) ==
    IF Len(sorted) = 0 THEN <<e>>
    ELSE IF Head(sorted).n <= e.n THEN <<Head(sorted)>> \o InsertAsc(Tail(sorted), e)
    ELSE <<e>> \o sorted

RECURSIVE SortAsc(_)
SortAsc(items) ==
    IF Len(items) = 0 THEN <<>>
    ELSE InsertAsc(SortAsc(ButLast(items)), LastOf(items))

SortedReverse(items) == Reverse(SortAsc(Reverse(items)))

\* a descending sort that reverses an ascending one: ties come out reversed
EnhancedDecoder_get_transitions_unstable(m, gram) == KeysOf(Reverse(SortAsc(Items(m, gram))))

\* EnhancedEncoder._get_transitions, for a gram of the model
EnhancedEncoder_get_transitions(m, gram) == KeysOf(SortedReverse(Items(m, gram)))

\* EnhancedDecoder._get_transitions, for a gram of the model
EnhancedDecoder_get_transitions(m, gram) == KeysOf(SortedReverse(Items(m, gram)))

(***************************************************************************)
(* Entry points                                                            *)
(***************************************************************************)
\* [key[-1] for key in keys if key.count("___BEGIN__") == state_size - 1]
EntryKeyLasts(m) ==
    LET IsEntry(key) == Count(key, BEGIN) = m.state_size - 1
    IN  [i \in DOMAIN SelectSeq(ModelKeys(m), IsEntry) |-> LastOf(SelectSeq(ModelKeys(m), IsEntry)[i])]

\* EnhancedEncoder._get_entrypoints
EnhancedEncoder_get_entrypoints(m) ==
    IF m.state_size = 1 THEN KeysOf(Items(m, <<BEGIN>>))
    ELSE Drop(EntryKeyLasts(m), 1)

\* EnhancedDecoder._get_entrypoints
EnhancedDecoder_get_entrypoints(m) ==
    IF m.state_size = 1 THEN KeysOf(Items(m, <<BEGIN>>))
    ELSE Drop(EntryKeyLasts(m), 1)

\* (token,) if state_size == 1 else (*["___BEGIN__"] * (state_size - 1), token)
EntryGram(m, token) ==
    IF m.state_size = 1 THEN <<token>> ELSE Append(Repeat(BEGIN, m.state_size - 1), token)

\* tuple((list(gram) + [token])[1:])
SlideGram(gram, token) == Tail(Append(gram, token))

\* what a step() call gives back: the float num / den, the int 1, None, or an
\* exception
Frac(num, den) == [kind |-> "float", num |-> num, den |-> den]
IntOne == [kind |-> "int", v |-> 1]
PyNone == [kind |-> "None"]
Raised == [kind |-> "raised"]

(***************************************************************************)
(* EnhancedEncoder                                                         *)
(***************************************************************************)
\* EnhancedEncoder.__init__
EnhancedEncoder_init(m, bitstream) ==
    [cls |-> "EnhancedEncoder",
     bitstream |-> bitstream,
     bitstream_length |-> Len(bitstream),
     entrypoints |-> EnhancedEncoder_get_entrypoints(m),
     current_gram |-> None,
     output_tokens |-> <<>>,
     exhausted |-> TRUE,
     finished |-> FALSE,
     end_key |-> 0,
     raised |-> ""]

\* a _consume_from_list that counts the index from the end of the list
EnhancedEncoder_consume_from_list_from_end(s, lst) ==
    LET list_length == Len(lst)
        bit_length == IF list_length = 0 THEN 0 ELSE EnhancedEncoder_bit_length(list_length)
        removed == Take(s.bitstream, bit_length)
        encoded_index == IF bit_length = 0 THEN 0 ELSE BinToInt(removed)
        bad == list_length = 0 \/ (bit_length # 0 /\ Len(removed) = 0)
    IN  [raised |-> IF bad THEN "ValueError" ELSE "",
         next_token |-> IF bad THEN None ELSE lst[list_length - encoded_index],
         removed |-> removed,
         bit_length |-> bit_length,
         encoded_index |-> encoded_index,
         bitstream |-> Drop(s.bitstream, bit_length)]

\* a _consume_from_list that reports a full-width group: the bits removed,
\* padded with '0' to bit_length
EnhancedEncoder_consume_from_list_padded(s, lst) ==
    LET list_length == Len(lst)
        bit_length == IF list_length = 0 THEN 0 ELSE EnhancedEncoder_bit_length(list_length)
        taken == Take(s.bitstream, bit_length)
        encoded_index == IF bit_length = 0 THEN 0 ELSE BinToInt(taken)
        bad == list_length = 0 \/ (bit_length # 0 /\ Len(taken) = 0)
    IN  [raised |-> IF bad THEN "ValueError" ELSE "",
         next_token |-> IF bad THEN None ELSE lst[encoded_index + 1],
         removed |-> taken \o [j \in 1..(bit_length - Len(taken)) |-> 48],
         bit_length |-> bit_length,
         encoded_index |-> encoded_index,
         bitstream |-> Drop(s.bitstream, bit_length)]

\* EnhancedEncoder._consume_from_list: the token picked, the bits removed and the
\* bitstream left; log2(0) and int('', 2) raise ValueError
EnhancedEncoder_consume_from_list(s, lst) ==
    LET list_length == Len(lst)
        bit_length == IF list_length = 0 THEN 0 ELSE EnhancedEncoder_bit_length(list_length)
        removed == Take(s.bitstream, bit_length)
        encoded_index == IF bit_length = 0 THEN 0 ELSE BinToInt(removed)
        bad == list_length = 0 \/ (bit_length # 0 /\ Len(removed) = 0)
    IN  [raised |-> IF bad THEN "ValueError" ELSE "",
         next_token |-> IF bad THEN None ELSE lst[encoded_index + 1],
         removed |-> removed,
         bit_length |-> bit_length,
         encoded_index |-> encoded_index,
         bitstream |-> Drop(s.bitstream, bit_length)]

\* an injection that leaves finished as it is
EnhancedEncoder_inject_end_key_unfinished(s, removed, i) ==
    [s EXCEPT !.end_key = Len(removed),
              !.output_tokens[i + 1] = Append(@, Len(removed) + ORD_a)]

\* EnhancedEncoder._inject_end_key, i = random.randint(0, len(output_tokens) - 1)
EnhancedEncoder_inject_end_key(s, removed, i) ==
    [s EXCEPT !.end_key = Len(removed),
              !.output_tokens[i + 1] = Append(@, Len(removed) + ORD_a),
              !.finished = TRUE]

\* the tail shared by _choose_entrypoint and _choose_next_token: emit the token,
\* and inject the end key when the bitstream is used up
EnhancedEncoder_emit(s, c, gram, i) ==
    LET s2 == [s EXCEPT !.bitstream = c.bitstream,
                        !.current_gram = gram,
                        !.output_tokens = Append(@, c.next_token)]
    IN  IF Len(s2.bitstream) = 0 THEN EnhancedEncoder_inject_end_key(s2, c.removed, i) ELSE s2

\* EnhancedEncoder._choose_entrypoint
EnhancedEncoder_choose_entrypoint(m, s, i) ==
    LET s1 == [s EXCEPT !.exhausted = FALSE]
        c == EnhancedEncoder_consume_from_list(s1, s1.entrypoints)
    IN  IF c.raised # "" THEN [s1 EXCEPT !.raised = c.raised]
        ELSE EnhancedEncoder_emit(s1, c, EntryGram(m, c.next_token), i)

\* a _choose_next_token that takes the chain to have ended only when END is the
\* one candidate
EnhancedEncoder_choose_next_token_sole_end(m, s, i) ==
    IF ~HasGram(m, s.current_gram) THEN [s EXCEPT !.raised = "KeyError"]
    ELSE LET transitions == EnhancedEncoder_get_transitions(m, s.current_gram)
             c == EnhancedEncoder_consume_from_list(s, transitions)
         IN  IF transitions = <<END>> THEN [s EXCEPT !.exhausted = TRUE]
             ELSE IF c.raised # "" THEN [s EXCEPT !.raised = c.raised]
             ELSE EnhancedEncoder_emit(s, c, SlideGram(s.current_gram, c.next_token), i)

\* EnhancedEncoder._choose_next_token; a gram the model lacks raises KeyError
EnhancedEncoder_choose_next_token(m, s, i) ==
    IF ~HasGram(m, s.current_gram) THEN [s EXCEPT !.raised = "KeyError"]
    ELSE LET transitions == EnhancedEncoder_get_transitions(m, s.current_gram)
             c == EnhancedEncoder_consume_from_list(s, transitions)
         IN  IF In(END, transitions) THEN [s EXCEPT !.exhausted = TRUE]
             ELSE IF c.raised # "" THEN [s EXCEPT !.raised = c.raised]
             ELSE EnhancedEncoder_emit(s, c, SlideGram(s.current_gram, c.next_token), i)

\* the body of EnhancedEncoder.step below its finished check ("raised" when the
\* call ends in an exception; a zero bitstream_length makes the progress
\* fraction raise ZeroDivisionError)
EnhancedEncoder_step_body(m, s, i) ==
    LET t == IF s.exhausted THEN EnhancedEncoder_choose_entrypoint(m, s, i)
             ELSE EnhancedEncoder_choose_next_token(m, s, i)
    IN  IF t.raised # "" THEN [s |-> t, ret |-> Raised]
        ELSE IF t.bitstream_length = 0
             THEN [s |-> [t EXCEPT !.raised = "ZeroDivisionError"], ret |-> Raised]
        ELSE [s |-> t,
              ret |-> Frac(t.bitstream_length - Len(t.bitstream), t.bitstream_length)]

\* a step() without the finished check
EnhancedEncoder_step_unguarded(m, s, i) == EnhancedEncoder_step_body(m, s, i)

\* EnhancedEncoder.step: the session after the call and the value returned
EnhancedEncoder_step(m, s, i) ==
    IF s.finished THEN [s |-> s, ret |-> IntOne]
    ELSE EnhancedEncoder_step_body(m, s, i)

(***************************************************************************)
(* EnhancedDecoder                                                         *)
(***************************************************************************)
\* EnhancedDecoder.__init__
EnhancedDecoder_init(m, stega_text) ==
    [cls |-> "EnhancedDecoder",
     stega_text |-> Split(stega_text),
     entrypoints |-> EnhancedDecoder_get_entrypoints(m),
     current_gram |-> None,
     exhausted |-> TRUE,
     finished |-> FALSE,
     index |-> 0,
     output |-> <<>>,
     endkey |-> 0,
     raised |-> ""]

\* EnhancedDecoder._choose_entrypoint; token[-1] of '' raises IndexError,
\* entrypoints.index of a token that is not in it raises ValueError
EnhancedDecoder_choose_entrypoint(m, s) ==
    LET s1 == [s EXCEPT !.exhausted = FALSE]
        token0 == s1.stega_text[s1.index + 1]
        marked == ~In(token0, s1.entrypoints)
        endkey == IF marked /\ Len(token0) > 0 THEN LastOf(token0) - ORD_a ELSE s1.endkey
        token == IF marked THEN ButLast(token0) ELSE token0
        s2 == [s1 EXCEPT !.endkey = endkey]
        embedded_index == IndexOf(s2.entrypoints, token)
        canonical == EnhancedDecoder_entry_bit_length(Len(s2.entrypoints))
        bit_length == IF s2.index = Len(s2.stega_text) - 1 THEN s2.endkey ELSE canonical
        bit_string == ZFill(Bin(embedded_index), bit_length)
    IN  IF marked /\ Len(token0) = 0 THEN [s1 EXCEPT !.raised = "IndexError"]
        ELSE IF ~In(token, s2.entrypoints) THEN [s2 EXCEPT !.raised = "ValueError"]
        ELSE [s2 EXCEPT !.current_gram = EntryGram(m, token),
                        !.output = @ \o bit_string]

\* EnhancedDecoder._choose_next_token; a gram the model lacks raises KeyError
EnhancedDecoder_choose_next_token(m, s) ==
    IF ~HasGram(m, s.current_gram) THEN [s EXCEPT !.raised = "KeyError"]
    ELSE
    LET transitions == EnhancedDecoder_get_transitions(m, s.current_gram)
        at_end == s.index = Len(s.stega_text) - 1
        token0 == IF at_end THEN <<>> ELSE s.stega_text[s.index + 2]
        canonical == EnhancedDecoder_next_bit_length(Len(transitions))
        marked == ~In(token0, transitions) /\ ~at_end
        endkey == IF marked /\ Len(token0) > 0 THEN LastOf(token0) - ORD_a ELSE s.endkey
        next_token == IF marked THEN ButLast(token0) ELSE token0
        s2 == [s EXCEPT !.endkey = endkey]
        bit_length == IF s2.index = Len(s2.stega_text) - 2 THEN s2.endkey ELSE canonical
        lookup == bit_length # 0 /\ ~at_end
        bit_string == IF lookup
                      THEN ZFill(Bin(IndexOf(transitions, next_token)), bit_length)
                      ELSE <<>>
    IN  IF In(END, transitions)
        THEN [s EXCEPT !.exhausted = TRUE, !.current_gram = None, !.index = @ + 1]
        ELSE IF marked /\ Len(token0) = 0 THEN [s EXCEPT !.raised = "IndexError"]
        ELSE IF lookup /\ ~In(next_token, transitions) THEN [s2 EXCEPT !.raised = "ValueError"]
        ELSE [s2 EXCEPT !.current_gram = SlideGram(s.current_gram, next_token),
                        !.output = @ \o bit_string,
                        !.index = @ + 1]

\* the body of EnhancedDecoder.step below its end-of-text check
EnhancedDecoder_step_body(m, s) ==
    LET t == IF s.exhausted THEN EnhancedDecoder_choose_entrypoint(m, s)
             ELSE EnhancedDecoder_choose_next_token(m, s)
    IN  IF t.raised # "" THEN [s |-> t, ret |-> Raised]
        ELSE [s |-> t, ret |-> Frac(t.index, Len(t.stega_text))]

\* an EnhancedDecoder.step whose end-of-text check lets the last index through
EnhancedDecoder_step_past_end(m, s) ==
    IF s.index >= Len(s.stega_text) /\ ~s.exhausted
    THEN [s |-> [s EXCEPT !.finished = TRUE], ret |-> IntOne]
    ELSE EnhancedDecoder_step_body(m, s)

\* EnhancedDecoder.step
EnhancedDecoder_step(m, s) ==
    IF s.index >= Len(s.stega_text) - 1 /\ ~s.exhausted
    THEN [s |-> [s EXCEPT !.finished = TRUE], ret |-> IntOne]
    ELSE EnhancedDecoder_step_body(m, s)


(***************************************************************************)
(* huffman.codebook (the huffman package): the two lightest nodes are      *)
(* merged until one is left, the first node taken getting the prefix '0'   *)
(* and the second '1'; nodes of equal weight are taken in creation order   *)
(* (the symbols in input order, then the merged nodes).                    *)
(***************************************************************************)
RECURSIVE HuffmanMerge(_, _)
HuffmanMerge(nodes, nextId) ==
    IF Cardinality(nodes) <= 1 THEN nodes
    ELSE LET Least(S) == CHOOSE a \in S : \A b \in S : a.w < b.w \/ (a.w = b.w /\ a.id <= b.id)
             lo == Least(nodes)
             hi == Least(nodes \ {lo})
             merged == [w |-> lo.w + hi.w,
                        id |-> nextId,
                        codes |-> {[tok |-> c.tok, code |-> <<48>> \o c.code] : c \in lo.codes}
                                  \cup {[tok |-> c.tok, code |-> <<49>> \o c.code] : c \in hi.codes}]
         IN  HuffmanMerge((nodes \ {lo, hi}) \cup {merged}, nextId + 1)

\* huffman.codebook([(k, v) for k, v in trans_matrix.items()]) as a set of
\* (tok, code) pairs, for two symbols or more
huffman_codebook(items) ==
    LET leaves == {[w |-> items[i].n, id |-> i,
                    codes |-> {[tok |-> items[i].tok, code |-> <<>>]}] : i \in DOMAIN items}
    IN  (CHOOSE n \in HuffmanMerge(leaves, Len(items) + 1) : TRUE).codes

\* tree_depth = max(len(code))
TreeDepth(book) == CHOOSE d \in {Len(c.code) : c \in book} : \A c \in book : Len(c.code) <= d

\* huffman_code[token], for a token of the book
CodeOf(book, token) == (CHOOSE c \in book : c.tok = token).code

\* the inverted book {code: token}[bits], for a code word of the book
TokenOf(book, bits) == (CHOOSE c \in book : c.code = bits).tok

\* "___BEGIN__" in key
HasBegin(key) == In(BEGIN, key)

\* [key for key in keys if "___BEGIN__" in key]
BeginKeys(m) == SelectSeq(ModelKeys(m), HasBegin)

(***************************************************************************)
(* ExistingEncoder                                                         *)
(***************************************************************************)
\* ExistingEncoder.__init__
ExistingEncoder_init(m, bitstream) ==
    [cls |-> "ExistingEncoder",
     bitstream |-> bitstream,
     bitstream_length |-> Len(bitstream),
     entrypoints |-> Drop(BeginKeys(m), 1),
     current_gram |-> None,
     output_tokens |-> <<>>,
     exhausted |-> TRUE,
     finished |-> FALSE,
     c |-> 1,
     raised |-> ""]

\* a loop that also tries the prefix that is the whole buffer (i > len skipped)
ExistingEncoder_match_length_whole(book, bitstream) ==
    LET hits == {i \in 1..TreeDepth(book) :
                    /\ ~(i > Len(bitstream))
                    /\ \E c \in book : c.code = Take(bitstream, i)}
    IN  IF hits = {} THEN 0 ELSE CHOOSE i \in hits : \A j \in hits : j <= i

\* the for loop of ExistingEncoder.step: the greatest i in tree_depth..1 with
\* i < len(bitstream) and bitstream[:i] a code word; 0 when the loop ends
\* without a break
ExistingEncoder_match_length(book, bitstream) ==
    LET hits == {i \in 1..TreeDepth(book) :
                    /\ ~(i >= Len(bitstream))
                    /\ \E c \in book : c.code = Take(bitstream, i)}
    IN  IF hits = {} THEN 0 ELSE CHOOSE i \in hits : \A j \in hits : j <= i

\* an entry-point branch that passes over an empty entrypoints list
ExistingEncoder_choose_entrypoint_lenient(s, choice) ==
    IF Len(s.entrypoints) = 0 THEN [s EXCEPT !.exhausted = FALSE]
    ELSE [s EXCEPT !.exhausted = FALSE,
                   !.current_gram = s.entrypoints[choice + 1],
                   !.output_tokens = Append(@, s.entrypoints[choice + 1][2])]

\* the entry-point branch of ExistingEncoder.step, choice the index drawn by
\* random.choice; an empty entrypoints list raises IndexError
ExistingEncoder_choose_entrypoint(s, choice) ==
    LET s1 == [s EXCEPT !.exhausted = FALSE]
    IN  IF Len(s1.entrypoints) = 0 THEN [s1 EXCEPT !.raised = "IndexError"]
        ELSE LET gram == s1.entrypoints[choice + 1]
             IN  IF Len(gram) < 2 THEN [s1 EXCEPT !.current_gram = gram, !.raised = "IndexError"]
                 ELSE [s1 EXCEPT !.current_gram = gram,
                                 !.output_tokens = Append(@, gram[2])]

\* a mid-chain branch that spends one bit on a single candidate
ExistingEncoder_choose_next_token_single_bit(m, s) ==
    IF ~HasGram(m, s.current_gram) THEN [s EXCEPT !.raised = "KeyError"]
    ELSE
    LET trans_matrix == Items(m, s.current_gram)
        multi == Len(trans_matrix) > 1
        book == huffman_codebook(trans_matrix)
        hit == ExistingEncoder_match_length(book, s.bitstream)
        count == IF hit > 0 THEN hit ELSE Len(s.bitstream)
        next_token == IF ~multi THEN trans_matrix[1].tok
                      ELSE IF hit > 0 THEN TokenOf(book, Take(s.bitstream, hit))
                      ELSE <<60>> \o s.bitstream \o <<62>>
        s1 == IF multi
              THEN [s EXCEPT !.c = @ + 1, !.bitstream = Drop(@, count)]
              ELSE [s EXCEPT !.bitstream = Drop(@, 1)]
    IN  IF next_token # END
        THEN [s1 EXCEPT !.current_gram = SlideGram(s.current_gram, next_token),
                        !.output_tokens = Append(@, next_token)]
        ELSE [s1 EXCEPT !.current_gram = None, !.exhausted = TRUE]

\* the mid-chain branch of ExistingEncoder.step; a gram the model lacks raises
\* KeyError
ExistingEncoder_choose_next_token(m, s) ==
    IF ~HasGram(m, s.current_gram) THEN [s EXCEPT !.raised = "KeyError"]
    ELSE
    LET trans_matrix == Items(m, s.current_gram)
        multi == Len(trans_matrix) > 1
        book == huffman_codebook(trans_matrix)
        hit == ExistingEncoder_match_length(book, s.bitstream)
        count == IF hit > 0 THEN hit ELSE Len(s.bitstream)
        next_token == IF ~multi THEN trans_matrix[1].tok
                      ELSE IF hit > 0 THEN TokenOf(book, Take(s.bitstream, hit))
                      ELSE <<60>> \o s.bitstream \o <<62>>
        s1 == IF multi
              THEN [s EXCEPT !.c = @ + 1, !.bitstream = Drop(@, count)]
              ELSE s
    IN  IF next_token # END
        THEN [s1 EXCEPT !.current_gram = SlideGram(s.current_gram, next_token),
                        !.output_tokens = Append(@, next_token)]
        ELSE [s1 EXCEPT !.current_gram = None, !.exhausted = TRUE]

\* a step() that reports a session of zero total bits as complete
ExistingEncoder_step_body_zero_total(m, s, choice) ==
    LET t == IF s.exhausted THEN ExistingEncoder_choose_entrypoint(s, choice)
             ELSE ExistingEncoder_choose_next_token(m, s)
        u == IF Len(t.bitstream) = 0 THEN [t EXCEPT !.finished = TRUE] ELSE t
    IN  IF t.raised # "" THEN [s |-> t, ret |-> Raised]
        ELSE IF u.bitstream_length = 0 THEN [s |-> u, ret |-> Frac(1, 1)]
        ELSE [s |-> u,
              ret |-> Frac(u.bitstream_length - Len(u.bitstream), u.bitstream_length)]

\* the body of ExistingEncoder.step below its finished check
ExistingEncoder_step_body(m, s, choice) ==
    LET t == IF s.exhausted THEN ExistingEncoder_choose_entrypoint(s, choice)
             ELSE ExistingEncoder_choose_next_token(m, s)
        u == IF Len(t.bitstream) = 0 THEN [t EXCEPT !.finished = TRUE] ELSE t
    IN  IF t.raised # "" THEN [s |-> t, ret |-> Raised]
        ELSE IF u.bitstream_length = 0
             THEN [s |-> [u EXCEPT !.raised = "ZeroDivisionError"], ret |-> Raised]
        ELSE [s |-> u,
              ret |-> Frac(u.bitstream_length - Len(u.bitstream), u.bitstream_length)]

\* ExistingEncoder.step
ExistingEncoder_step(m, s, choice) ==
    IF s.finished THEN [s |-> s, ret |-> PyNone]
    ELSE ExistingEncoder_step_body(m, s, choice)

(***************************************************************************)
(* ExistingDecoder                                                         *)
(***************************************************************************)
\* the str "INVALID TOKEN {next_token}" (no f-string in the source)
INVALID_TOKEN ==
    <<73, 78, 86, 65, 76, 73, 68, 32, 84, 79, 75, 69, 78, 32,
      123, 110, 101, 120, 116, 95, 116, 111, 107, 101, 110, 125>>

\* re.match(r"<[01]+>", token): a match at the start of the token
IsLiteralEscape(token) ==
    /\ Len(token) >= 3
    /\ token[1] = 60
    /\ \E n \in 1..(Len(token) - 2) :
          /\ \A j \in 2..(n + 1) : token[j] \in {48, 49}
          /\ token[n + 2] = 62

\* token[-1] in ".?!"
EndsSentence(token) == Len(token) > 0 /\ LastOf(token) \in {46, 63, 33}

\* ExistingDecoder.__init__; key[1] of a one-element key raises IndexError
ExistingDecoder_init(m, stega_text) ==
    [cls |-> "ExistingDecoder",
     stega_text |-> Split(stega_text),
     entrypoints |-> IF \E i \in DOMAIN BeginKeys(m) : Len(BeginKeys(m)[i]) < 2 THEN <<>>
                     ELSE Drop([i \in DOMAIN BeginKeys(m) |-> BeginKeys(m)[i][2]], 1),
     endkey |-> 0,
     current_gram |-> None,
     index |-> 0,
     exhausted |-> TRUE,
     finished |-> FALSE,
     output |-> <<>>,
     raised |-> IF \E i \in DOMAIN BeginKeys(m) : Len(BeginKeys(m)[i]) < 2
                THEN "IndexError" ELSE ""]

\* a forced end that does not look at the next token
ExistingDecoder_forced_end_always(multi, punct, member) == punct

\* whether ExistingDecoder.step replaces the next token by END: after a token
\* ending in . ? ! at a context that holds END (punct), with several candidates
\* only if the next token is not one of them, with one candidate always
ExistingDecoder_forced_end(multi, punct, member) ==
    IF multi THEN punct /\ ~member ELSE punct

\* an escape token read back as the bits it carries
ExistingDecoder_escape_bits_carried(token) == SubSeq(token, 2, Len(token) - 1)

\* the bit_string of a literal-escape token: bit_string = ""
ExistingDecoder_escape_bits(token) == <<>>

\* the mid-chain branch of ExistingDecoder.step; a gram the model lacks and a
\* token the code book lacks raise KeyError
ExistingDecoder_choose_next_token(m, s) ==
    IF ~HasGram(m, s.current_gram) THEN [s EXCEPT !.raised = "KeyError"]
    ELSE
    LET trans_matrix == Items(m, s.current_gram)
        tokens == KeysOf(trans_matrix)
        at_end == s.index = Len(s.stega_text) - 1
        token0 == IF at_end THEN <<>> ELSE s.stega_text[s.index + 2]
        multi == Len(trans_matrix) > 1
        punct == EndsSentence(s.current_gram[2]) /\ In(END, tokens)
        forced == ExistingDecoder_forced_end(multi, punct, In(token0, tokens))
        token1 == IF forced THEN END ELSE token0
        escape == multi /\ IsLiteralEscape(token1)
        next_token == IF escape THEN INVALID_TOKEN ELSE token1
        lookup == multi /\ ~escape /\ ~at_end
        bit_string == IF lookup THEN CodeOf(huffman_codebook(trans_matrix), token1)
                      ELSE IF escape THEN ExistingDecoder_escape_bits(token1)
                      ELSE <<>>
        s1 == IF forced THEN [s EXCEPT !.exhausted = TRUE] ELSE s
    IN  IF lookup /\ ~In(token1, tokens) THEN [s1 EXCEPT !.raised = "KeyError"]
        ELSE [s1 EXCEPT !.current_gram = SlideGram(s.current_gram, next_token),
                        !.index = @ + 1,
                        !.output = @ \o bit_string]

\* the body of ExistingDecoder.step below its end-of-text check
ExistingDecoder_step_body(m, s) ==
    LET t == IF s.exhausted
             THEN [s EXCEPT !.current_gram = <<BEGIN, s.stega_text[s.index + 1]>>,
                            !.exhausted = FALSE]
             ELSE ExistingDecoder_choose_next_token(m, s)
    IN  IF t.raised # "" THEN [s |-> t, ret |-> Raised]
        ELSE [s |-> t, ret |-> Frac(t.index, Len(t.stega_text))]

\* ExistingDecoder.step
ExistingDecoder_step(m, s) ==
    IF s.index >= Len(s.stega_text) - 1 /\ ~s.exhausted
    THEN [s |-> [s EXCEPT !.finished = TRUE], ret |-> PyNone]
    ELSE ExistingDecoder_step_body(m, s)


(***************************************************************************)
(* The sessions as a state machine.  A caller constructs one session over  *)
(* the model and drives it by step(); a finished encoder's output is       *)
(* handed to a decoder of the same family.  ret holds each session's last  *)
(* step() return value.  ghost records, for the encoders, the payload, the *)
(* tokens as selected (before any marker) and the control states already   *)
(* stepped from; no operation reads it.                                    *)
(***************************************************************************)
TextTokens == {tX, tY, tP, tPdot, tQ, tWa, tEsc1}

RECURSIVE TokenSeqs(_)
TokenSeqs(n) ==
    IF n = 0 THEN {<<>>}
    ELSE {Append(s, t) : s \in TokenSeqs(n - 1), t \in TextTokens}

\* the stego texts handed to the decoders directly
Texts == {Join(ts) : ts \in UNION {TokenSeqs(n) : n \in 1..MaxTextTokens}}

NoCall == [kind |-> "NoCall"]
NoFn == [op |-> "none"]
\* ed_calls and xd_calls count the step() calls solve() has made: the calls
\* on a session that is not yet finished
Ghost0(payload) ==
    [payload |-> payload, selected |-> <<>>, ee_seen |-> {}, xe_seen |-> {},
     ed_calls |-> 0, xd_calls |-> 0]
Ret0 == [ee |-> NoCall, ed |-> NoCall, xe |-> NoCall, xd |-> NoCall]

Init ==
    /\ model \in Models
    /\ ret = Ret0
    /\ fn = NoFn
    /\ \/ \E b \in BitStrings :
             /\ ee = EnhancedEncoder_init(model, b)
             /\ ghost = Ghost0(b)
             /\ ed = NoSession /\ xe = NoSession /\ xd = NoSession
       \/ \E t \in Texts :
             /\ ed = EnhancedDecoder_init(model, t)
             /\ ghost = Ghost0(<<>>)
             /\ ee = NoSession /\ xe = NoSession /\ xd = NoSession
       \/ \E b \in BitStrings :
             /\ xe = ExistingEncoder_init(model, b)
             /\ ghost = Ghost0(b)
             /\ ee = NoSession /\ ed = NoSession /\ xd = NoSession
       \/ \E t \in Texts :
             /\ xd = ExistingDecoder_init(model, t)
             /\ ghost = Ghost0(<<>>)
             /\ ee = NoSession /\ ed = NoSession /\ xe = NoSession

Live(s) == s.cls # "none" /\ s.raised = ""

\* the part of an encoder's state that decides its next step
Control(s) == <<s.exhausted, s.current_gram, s.bitstream>>

\* one EnhancedEncoder.step() call; i is the random.randint draw of
\* _inject_end_key, over the tokens there are once this step has emitted
EEStep ==
    /\ Live(ee)
    /\ ee.finished \/ Len(ee.output_tokens) < MaxTokens
    /\ \E i \in 0..Len(ee.output_tokens) :
          LET r == EnhancedEncoder_step(model, ee, i)
          IN  /\ ee' = r.s
              /\ ret' = [ret EXCEPT !.ee = r.ret]
              /\ ghost' = IF ee.finished THEN ghost
                          ELSE [ghost EXCEPT
                                  !.ee_seen = @ \cup {Control(ee)},
                                  !.selected = IF Len(r.s.output_tokens) > Len(ee.output_tokens)
                                               THEN Append(@, LastOf(r.s.current_gram))
                                               ELSE @]
    /\ UNCHANGED <<model, ed, xe, xd, fn>>

\* EnhancedDecoder(model, encoder.output) for a finished encoder
EnhancedDecode ==
    /\ Live(ee) /\ ee.finished
    /\ ed = NoSession
    /\ ed' = EnhancedDecoder_init(model, Join(ee.output_tokens))
    /\ UNCHANGED <<model, ee, xe, xd, ret, ghost, fn>>

\* one EnhancedDecoder.step() call
EDStep ==
    /\ Live(ed)
    /\ LET r == EnhancedDecoder_step(model, ed)
       IN  /\ ed' = r.s
           /\ ret' = [ret EXCEPT !.ed = r.ret]
    /\ ghost' = IF ed.finished THEN ghost ELSE [ghost EXCEPT !.ed_calls = @ + 1]
    /\ UNCHANGED <<model, ee, xe, xd, fn>>

\* an ExistingEncoder.step() whose bit cursor is the one the EnhancedEncoder
\* session reads
XEStep_shared_cursor ==
    /\ Live(xe)
    /\ xe.finished \/ Len(xe.output_tokens) < MaxTokens
    /\ \E choice \in 0..(IF Len(xe.entrypoints) = 0 THEN 0 ELSE Len(xe.entrypoints) - 1) :
          LET r == ExistingEncoder_step(model, xe, choice)
          IN  /\ xe' = r.s
              /\ ee' = IF ee.cls = "none" THEN ee ELSE [ee EXCEPT !.bitstream = r.s.bitstream]
              /\ ret' = [ret EXCEPT !.xe = r.ret]
              /\ ghost' = IF xe.finished THEN ghost
                          ELSE [ghost EXCEPT !.xe_seen = @ \cup {Control(xe)}]
    /\ UNCHANGED <<model, ed, xd, fn>>

\* one ExistingEncoder.step() call; choice is the random.choice draw
XEStep ==
    /\ Live(xe)
    /\ xe.finished \/ Len(xe.output_tokens) < MaxTokens
    /\ \E choice \in 0..(IF Len(xe.entrypoints) = 0 THEN 0 ELSE Len(xe.entrypoints) - 1) :
          LET r == ExistingEncoder_step(model, xe, choice)
          IN  /\ xe' = r.s
              /\ ret' = [ret EXCEPT !.xe = r.ret]
              /\ ghost' = IF xe.finished THEN ghost
                          ELSE [ghost EXCEPT !.xe_seen = @ \cup {Control(xe)}]
    /\ UNCHANGED <<model, ee, ed, xd, fn>>

\* ExistingDecoder(model, encoder.output) for a finished encoder
ExistingDecode ==
    /\ Live(xe) /\ xe.finished
    /\ xd = NoSession
    /\ xd' = ExistingDecoder_init(model, Join(xe.output_tokens))
    /\ UNCHANGED <<model, ee, ed, xe, ret, ghost, fn>>

\* one ExistingDecoder.step() call
XDStep ==
    /\ Live(xd)
    /\ LET r == ExistingDecoder_step(model, xd)
       IN  /\ xd' = r.s
           /\ ret' = [ret EXCEPT !.xd = r.ret]
    /\ ghost' = IF xd.finished THEN ghost ELSE [ghost EXCEPT !.xd_calls = @ + 1]
    /\ UNCHANGED <<model, ee, ed, xe, fn>>

Next == EEStep \/ EnhancedDecode \/ EDStep \/ XEStep \/ ExistingDecode \/ XDStep

Spec == Init /\ [][Next]_vars


(***************************************************************************)
(* The pure computations applied on their own to inputs drawn from bounded *)
(* sets: the code length of a list of n elements, _get_transitions of a    *)
(* one-context model, and _inject_end_key of a session that has emitted    *)
(* its tokens and removed c bits in its last selection.                    *)
(***************************************************************************)
ItemTokens == {tP, tQ, tR, tY}

\* the candidate dicts: up to MaxItems distinct tokens with frequencies
ItemLists ==
    {its \in UNION {[1..k -> {E(t, n) : t \in ItemTokens, n \in 1..MaxFreq}] : k \in 1..MaxItems} :
        \A i, j \in DOMAIN its : i # j => its[i].tok # its[j].tok}

\* the model whose only context, ("x",), has the candidate dict items
OneContextModel(items) == [state_size |-> 1, chain |-> <<K(<<tX>>, items)>>]

\* c times '0'
Zeros(c) == [i \in 1..c |-> 48]

\* a session about to call _inject_end_key: its tokens emitted, its bitstream
\* used up
EmittedSession(tokens) ==
    [EnhancedEncoder_init(ModelClean, <<>>) EXCEPT !.output_tokens = tokens,
                                                  !.exhausted = FALSE]

FnInit ==
    /\ ee = NoSession /\ ed = NoSession /\ xe = NoSession /\ xd = NoSession
    /\ ret = Ret0
    /\ ghost = Ghost0(<<>>)
    /\ \/ \E n \in 1..MaxListLen :
             /\ model = ModelClean
             /\ fn = [op |-> "bit_length", n |-> n, done |-> FALSE]
       \/ \E its \in ItemLists :
             /\ model = OneContextModel(its)
             /\ fn = [op |-> "get_transitions", gram |-> <<tX>>, done |-> FALSE]
       \/ \E c \in 0..MaxRemoved, tokens \in {<<tX>>, <<tX, tP>>, <<tY, tP, tX>>} :
             /\ model = ModelClean
             /\ fn = [op |-> "inject_end_key", s |-> EmittedSession(tokens),
                      removed |-> Zeros(c), done |-> FALSE]

\* the code length of a list of fn.n elements, in each of the three places
FnBitLength ==
    /\ fn.op = "bit_length" /\ ~fn.done
    /\ fn' = [op |-> "bit_length", n |-> fn.n, done |-> TRUE,
              enc |-> EnhancedEncoder_bit_length(fn.n),
              entry |-> EnhancedDecoder_entry_bit_length(fn.n),
              next |-> EnhancedDecoder_next_bit_length(fn.n)]
    /\ UNCHANGED <<model, ee, ed, xe, xd, ret, ghost>>

\* _get_transitions(fn.gram) of the encoder and of the decoder
FnGetTransitions ==
    /\ fn.op = "get_transitions" /\ ~fn.done
    /\ fn' = [op |-> "get_transitions", gram |-> fn.gram, done |-> TRUE,
              enc |-> EnhancedEncoder_get_transitions(model, fn.gram),
              dec |-> EnhancedDecoder_get_transitions(model, fn.gram)]
    /\ UNCHANGED <<model, ee, ed, xe, xd, ret, ghost>>

\* _inject_end_key(fn.removed) on the session fn.s
FnInjectEndKey ==
    /\ fn.op = "inject_end_key" /\ ~fn.done
    /\ \E i \in 0..(Len(fn.s.output_tokens) - 1) :
          fn' = [op |-> "inject_end_key", s |-> fn.s, removed |-> fn.removed, done |-> TRUE,
                 i |-> i,
                 out |-> EnhancedEncoder_inject_end_key(fn.s, fn.removed, i)]
    /\ UNCHANGED <<model, ee, ed, xe, xd, ret, ghost>>

FnNext == FnBitLength \/ FnGetTransitions \/ FnInjectEndKey

FnSpec == FnInit /\ [][FnNext]_vars


(***************************************************************************)
(* Two sessions over one model.  The model object is shared by reference   *)
(* (self.model = model); a caller that holds two sessions calls their      *)
(* step() in any order.  The encoders of the two families run side by      *)
(* side, on one payload or on a payload and its complement, or the two     *)
(* decoders; a finished encoder's text may be handed to its decoder while  *)
(* the other sessions are still running.                                   *)
(***************************************************************************)
SharedBits == UNION {BitStringsOfLen(n) : n \in 0..MaxSharedBits}

\* the payload with every bit inverted
Complement(b) == [j \in DOMAIN b |-> IF b[j] = 48 THEN 49 ELSE 48]

SharedTexts == {Join(<<tX, tP>>), Join(<<tY, tQ>>), Join(<<tX, tPdot, tY>>), Join(<<tX, tEsc1>>)}

SharedInit ==
    /\ model \in Models
    /\ ret = Ret0
    /\ fn = NoFn
    /\ \/ \E b1 \in SharedBits : \E b2 \in {b1, Complement(b1)} :
             /\ ee = EnhancedEncoder_init(model, b1)
             /\ xe = ExistingEncoder_init(model, b2)
             /\ ghost = Ghost0(b1)
             /\ ed = NoSession /\ xd = NoSession
       \/ \E t1, t2 \in SharedTexts :
             /\ ed = EnhancedDecoder_init(model, t1)
             /\ xd = ExistingDecoder_init(model, t2)
             /\ ghost = Ghost0(<<>>)
             /\ ee = NoSession /\ xe = NoSession

SharedSpec == SharedInit /\ [][Next]_vars


(***************************************************************************)
(* Properties                                                              *)
(***************************************************************************)
\* a decoder that was handed the output of the encoder of its family
EnhancedPipeline == ee.cls # "none" /\ ed.cls # "none"
ExistingPipeline == xe.cls # "none" /\ xd.cls # "none"

\* C1: Enhanced round trip. Whenever EnhancedEncoder.generate() completed on
\* the payload and EnhancedDecoder.solve() ran on the generated text, whichever
\* token got the marker, solve() returned, and returned exactly the payload.
C1_EnhancedRoundTrip ==
    (EnhancedPipeline /\ (ed.finished \/ ed.raised # ""))
        => (ed.raised = "" /\ ed.output = ghost.payload)

\* the last element of every key with exactly state_size - 1 START tokens, in
\* key order, the all-START key left out
ClaimedEntrypoints(m) ==
    LET IsEntry(key) == Count(key, BEGIN) = m.state_size - 1 /\ key # Repeat(BEGIN, m.state_size)
        keys == SelectSeq(ModelKeys(m), IsEntry)
    IN  [i \in DOMAIN keys |-> LastOf(keys[i])]

\* C2: entry-point extraction for state size k > 1. The entrypoints of an
\* EnhancedEncoder and of an EnhancedDecoder are the last elements of all keys
\* with exactly k-1 START tokens, only the all-START key excluded; for the keys
\* (START,START), (START,"the"), (START,"a") they are ["the", "a"].
C2_EntryPointExtraction ==
    \A s \in {ee, ed} :
        (s.cls # "none" /\ model.state_size > 1)
            => /\ s.entrypoints = ClaimedEntrypoints(model)
               /\ model = ModelTheA => s.entrypoints = <<tThe, tA>>

\* lst holds the tokens of items by descending frequency, equal frequencies in
\* the order of items
IsCanonicalOrder(items, lst) ==
    /\ Len(lst) = Len(items)
    /\ {lst[i] : i \in DOMAIN lst} = {items[i].tok : i \in DOMAIN items}
    /\ \A i, j \in DOMAIN lst :
          i < j =>
            LET a == CHOOSE x \in DOMAIN items : items[x].tok = lst[i]
                b == CHOOSE x \in DOMAIN items : items[x].tok = lst[j]
            IN  items[a].n > items[b].n \/ (items[a].n = items[b].n /\ a < b)

\* C3: canonical order determinism. For every context the list computed by
\* _get_transitions is the next tokens by descending frequency, ties in the
\* model's first-seen order, and the encoder's and the decoder's lists are the
\* same list.
C3_CanonicalOrder ==
    (fn.op = "get_transitions" /\ fn.done)
        => /\ fn.enc = fn.dec
           /\ IsCanonicalOrder(Items(model, fn.gram), fn.enc)
           /\ IsCanonicalOrder(Items(model, fn.gram), fn.dec)

\* C3 witness: a context with a tie, p:1 q:2 r:1, ordered q p r
C3_Witness ==
    /\ fn.op = "get_transitions" /\ fn.done
    /\ Items(model, fn.gram) = <<E(tP, 1), E(tQ, 2), E(tR, 1)>>
    /\ fn.dec = <<tQ, tP, tR>>

\* floor(log2(n)) for n >= 1
FloorLog2(n) == CHOOSE L \in 0..n : Pow2(L) <= n /\ n < Pow2(L + 1)

\* C4: code-length formula. For a list of n >= 1 elements the code length
\* computed in _consume_from_list, in the decoder's _choose_entrypoint and in
\* the decoder's _choose_next_token is floor(log2(n)) in all three; n = 1, 2,
\* 3, 4, 5, 8, 9 give 0, 1, 1, 2, 2, 3, 3.
C4_CodeLength ==
    (fn.op = "bit_length" /\ fn.done)
        => /\ fn.enc = FloorLog2(fn.n)
           /\ fn.entry = FloorLog2(fn.n)
           /\ fn.next = FloorLog2(fn.n)
           /\ \A p \in {<<1, 0>>, <<2, 1>>, <<3, 1>>, <<4, 2>>, <<5, 2>>, <<8, 3>>, <<9, 3>>} :
                 fn.n = p[1] => fn.enc = p[2]

\* C4 witness: the code length of a list of 9 elements was computed, and is 3
C4_Witness == fn.op = "bit_length" /\ fn.done /\ fn.n = 9 /\ fn.enc = 3 /\ fn.next = 3

\* C5: idempotent terminal step. A step() call on a session that is finished
\* leaves the whole session as it is and returns the completion value of its
\* class (1 for the Enhanced sessions, None for the Existing ones).
C5_IdempotentTerminalStep ==
    [][ /\ (EEStep /\ ee.finished) => (ee' = ee /\ ret'.ee = IntOne)
        /\ (EDStep /\ ed.finished) => (ed' = ed /\ ret'.ed = IntOne)
        /\ (XEStep /\ xe.finished) => (xe' = xe /\ ret'.xe = PyNone)
        /\ (XDStep /\ xd.finished) => (xd' = xd /\ ret'.xd = PyNone) ]_vars

\* C5 witness: a finished encoder was stepped again (step() returned the int 1,
\* not a progress fraction) and its decoder is finished too
C5_Witness == EnhancedPipeline /\ ee.finished /\ ret.ee = IntOne /\ ed.finished /\ ret.ed = IntOne

\* C6: literal escape at decode. An ExistingDecoder whose text holds a token of
\* the shape <bits> ends in a failure: it never becomes finished, so solve()
\* never returns a bit string for such a text.
C6_LiteralEscapeFails ==
    (xd.cls # "none" /\ \E i \in DOMAIN xd.stega_text : IsLiteralEscape(xd.stega_text[i]))
        => ~xd.finished

\* C7: end-key boundary. _inject_end_key for c removed bits appends chr(97+c)
\* for c in 0..25 ('a' for 0, 'z' for 25) and rejects c >= 26: no token gets a
\* character outside 'a'..'z'.
C7_EndKeyBoundary ==
    (fn.op = "inject_end_key" /\ fn.done)
        => LET c == Len(fn.removed)
               before == fn.s.output_tokens
               after == fn.out.output_tokens
           IN  /\ c <= 25 => after[fn.i + 1] = Append(before[fn.i + 1], ORD_a + c)
               /\ c >= 26 => after = before
               /\ \A j \in DOMAIN after :
                     after[j] # before[j] => LastOf(after[j]) \in ORD_a..(ORD_a + 25)

\* every token of the model: of its keys and of its candidate dicts
Vocabulary(m) ==
    UNION {{m.chain[i].key[j] : j \in DOMAIN m.chain[i].key}
              \cup {m.chain[i].next[j].tok : j \in DOMAIN m.chain[i].next} : i \in DOMAIN m.chain}

\* a token no list of the model can resolve: neither a token of the model nor
\* one followed by a marker letter
Foreign(m, token) ==
    /\ token \notin Vocabulary(m)
    /\ ~(/\ Len(token) > 0
         /\ ButLast(token) \in Vocabulary(m)
         /\ LastOf(token) \in ORD_a..(ORD_a + 25))

\* C8: unresolvable token. A decoder (of either family) whose text holds a
\* token that no entrypoints or candidate list resolves fails at it: the
\* session never becomes finished.
C8_UnresolvableTokenFails ==
    \A s \in {ed, xd} :
        (s.cls # "none" /\ s.raised # "IndexError"
            /\ \E i \in DOMAIN s.stega_text : Foreign(model, s.stega_text[i]))
            => ~s.finished

\* C9: encoder completion. On a non-empty payload, with entry points and every
\* visited context in the model, no encoder that is still running comes back
\* to a control state (exhausted, context, remaining bits) it has already
\* stepped from: its steps cannot go on forever.
C9_EncoderCompletion ==
    /\ (Live(ee) /\ ~ee.finished /\ ee.bitstream_length > 0)
          => Control(ee) \notin ghost.ee_seen
    /\ (Live(xe) /\ ~xe.finished /\ xe.bitstream_length > 0)
          => Control(xe) \notin ghost.xe_seen

C11_ExistingMayFail ==
    (/\ ExistingPipeline
     /\ Len(xe.output_tokens) > 1
     /\ IsLiteralEscape(LastOf(xe.output_tokens))
     /\ ~EndsSentence(LastOf(ButLast(xe.output_tokens)))
     /\ xd.finished)
        => xd.output # ghost.payload

C11_Witness ==
    /\ ExistingPipeline
    /\ Len(xe.output_tokens) > 1
    /\ LastOf(xe.output_tokens) = <<60>> \o Drop(ghost.payload, Len(xd.output)) \o <<62>>
    /\ ~EndsSentence(LastOf(ButLast(xe.output_tokens)))
    /\ Len(xd.output) > 0
    /\ xd.finished
    /\ xd.output # ghost.payload

EncodeFailureCase(s) ==
    /\ Live(s) /\ ~s.finished
    /\ \/ s.exhausted /\ s.entrypoints = <<>>
       \/ ~s.exhausted /\ ~HasGram(model, s.current_gram)

\* C13: encode failure. For both encoders a step() taken with an empty
\* entrypoints list, or with a context that is absent from the model, ends in
\* an error at once, and the session is not finished: generate() returns no
\* stego text.
C13_EncodeFailure ==
    [][/\ (EncodeFailureCase(ee) /\ ee' # ee) =>
             (ee'.raised # "" /\ ~ee'.finished /\ ret'.ee = Raised
              /\ ee'.output_tokens = ee.output_tokens)
       /\ (EncodeFailureCase(xe) /\ xe' # xe) =>
             (xe'.raised # "" /\ ~xe'.finished /\ ret'.xe = Raised
              /\ xe'.output_tokens = xe.output_tokens)
      ]_vars

\* both encoders over the truncated model, each failed on a missing context
C13_Witness ==
    /\ ee.cls # "none" /\ ee.raised = "KeyError" /\ ~ee.finished
    /\ xe.cls # "none" /\ xe.raised = "KeyError" /\ ~xe.finished

\* the list an EnhancedEncoder that is about to emit selects from
SelectionList(s) ==
    IF s.exhausted THEN s.entrypoints
    ELSE EnhancedEncoder_get_transitions(model, s.current_gram)

Min(a, b) == IF a <= b THEN a ELSE b

\* C14: Enhanced termination record. On a non-empty payload an EnhancedEncoder
\* is finished exactly when its bit buffer is empty; the step that finishes it
\* emits one token, and the end key it records is the number of bits that
\* selection removed, min(L, bits left before it), with 1 <= c <= L for L the
\* canonical code length of the list selected from.
C14_TerminationRecord ==
    /\ [](ee.cls # "none" /\ ee.bitstream_length > 0
            => /\ ee.finished <=> Len(ee.bitstream) = 0
               /\ ~ee.finished => ee.end_key = 0)
    /\ [][(ee.cls # "none" /\ ee.bitstream_length > 0 /\ ~ee.finished /\ ee'.finished)
            => LET L == FloorLog2(Len(SelectionList(ee)))
                   c == ee'.end_key
               IN  /\ Len(ee'.output_tokens) = Len(ee.output_tokens) + 1
                   /\ c = Len(ee.bitstream) - Len(ee'.bitstream)
                   /\ c = Min(L, Len(ee.bitstream))
                   /\ 1 <= c /\ c <= L
      ]_vars

\* finished with one bit removed from a list of four (L = 2): the payload ran
\* out inside the last group
C14_Witness ==
    /\ ee.cls # "none" /\ ee.finished
    /\ model = ModelClean
    /\ Len(ghost.payload) = 2
    /\ ghost.selected[1] = tX /\ Len(ghost.selected) = 2
    /\ ee.end_key = 1

\* an EnhancedDecoder whose next step() resolves a token against a list: the
\* entrypoints, or the candidates of a context that does not hold END
DecoderSelects(s) ==
    /\ Live(s)
    /\ ~(s.index >= Len(s.stega_text) - 1 /\ ~s.exhausted)
    /\ \/ s.exhausted
       \/ /\ HasGram(model, s.current_gram)
          /\ ~In(END, EnhancedDecoder_get_transitions(model, s.current_gram))

\* the list it resolves against
DecoderList(s) ==
    IF s.exhausted THEN s.entrypoints
    ELSE EnhancedDecoder_get_transitions(model, s.current_gram)

\* the token it resolves is the last token of the text
DecoderTerminal(s) ==
    IF s.exhausted THEN s.index = Len(s.stega_text) - 1
    ELSE s.index = Len(s.stega_text) - 2

\* C15: decoder end-key override. On a text an EnhancedEncoder generated, each
\* selection EnhancedDecoder resolves appends exactly c bits, the end key the
\* encoder recorded, when it is the selection of the last token, and exactly
\* floor(log2 n) bits when it is any other, whichever token carries the marker;
\* a decoder that has finished has appended as many bits as the encoder
\* consumed.
C15_EndKeyOverride ==
    [][(EnhancedPipeline /\ ed' # ed) =>
          /\ DecoderSelects(ed) =>
                Len(ed'.output) - Len(ed.output) =
                    IF DecoderTerminal(ed) THEN ee.end_key
                    ELSE FloorLog2(Len(DecoderList(ed)))
          /\ ed'.finished => Len(ed'.output) = ee.bitstream_length
      ]_vars

\* a session in mid-chain whose context has END among its candidates
AtChainBoundary(s) ==
    /\ Live(s) /\ ~s.finished /\ ~s.exhausted
    /\ HasGram(model, s.current_gram)
    /\ In(END, KeysOf(Items(model, s.current_gram)))

\* C16: Enhanced chain boundary. When the candidates of the current context
\* hold END, alone or among others, EnhancedEncoder.step() sets exhausted and
\* changes nothing else (no bit consumed, no token emitted), and a step taken
\* with exhausted set selects from entrypoints; EnhancedDecoder, unless it is at
\* the last token, sets exhausted, appends no bits and moves to the next token,
\* which its next step resolves against entrypoints.
C16_ChainBoundary ==
    [][/\ (AtChainBoundary(ee) /\ ee' # ee) =>
             /\ ee' = [ee EXCEPT !.exhausted = TRUE]
             /\ ghost'.selected = ghost.selected
       /\ (Live(ee) /\ ~ee.finished /\ ee.exhausted /\ ee' # ee /\ ee'.raised = "") =>
             /\ Len(ghost'.selected) = Len(ghost.selected) + 1
             /\ In(LastOf(ghost'.selected), ee.entrypoints)
             /\ ee'.current_gram = EntryGram(model, LastOf(ghost'.selected))
             /\ ~ee'.exhausted
       /\ (AtChainBoundary(ed) /\ ed.index < Len(ed.stega_text) - 1 /\ ed' # ed) =>
             /\ ed'.exhausted /\ ed'.raised = ""
             /\ ed'.output = ed.output
             /\ ed'.index = ed.index + 1
       /\ (Live(ed) /\ ~ed.finished /\ ed.exhausted /\ ed' # ed /\ ed'.raised = "") =>
             /\ ~ed'.exhausted /\ ed'.index = ed.index
             /\ \E t \in {ed.stega_text[ed.index + 1], ButLast(ed.stega_text[ed.index + 1])} :
                   In(t, ed.entrypoints) /\ ed'.current_gram = EntryGram(model, t)
      ]_vars

\* "x", the end of the chain at a context that holds END and "p", then the
\* fresh entry point "y"; the decoder has followed the text across the boundary
C16_Witness ==
    /\ EnhancedPipeline
    /\ model = ModelMixed
    /\ Len(ghost.selected) >= 2 /\ ghost.selected[1] = tX /\ ghost.selected[2] = tY
    /\ ed.index >= 1 /\ ~ed.exhausted /\ ed.current_gram = <<tY>>
    /\ ed.output = Take(ghost.payload, 2)

\* C17: addressable range at encode. Every token an EnhancedEncoder emits is
\* the element of the list selected from (entrypoints or candidates, n
\* elements) whose index is the big-endian value of the bits the step consumed
\* (0 for no bits); that index is below 2^floor(log2 n), so no candidate at
\* index 2^floor(log2 n) or above is ever emitted.
C17_AddressableEncode ==
    [][(ee.cls # "none" /\ Len(ghost'.selected) > Len(ghost.selected)) =>
          LET lst == SelectionList(ee)
              consumed == Take(ee.bitstream, Len(ee.bitstream) - Len(ee'.bitstream))
              v == IF Len(consumed) = 0 THEN 0 ELSE BinToInt(consumed)
          IN  /\ ee'.bitstream = Drop(ee.bitstream, Len(consumed))
              /\ Len(consumed) <= FloorLog2(Len(lst))
              /\ v < Pow2(FloorLog2(Len(lst)))
              /\ LastOf(ghost'.selected) = lst[v + 1]
              /\ \A j \in 1..Len(lst) :
                    j - 1 >= Pow2(FloorLog2(Len(lst))) => LastOf(ghost'.selected) # lst[j]
      ]_vars

\* selections made from lists of three: the entry point at index 0, then the
\* candidate at index 1 of ("p", "r", "q"), whose index 2 has no code
C17_Witness ==
    /\ ee.cls # "none" /\ model = ModelThree
    /\ Len(ghost.selected) >= 2
    /\ ghost.selected[1] = tX /\ ghost.selected[2] = tR

\* the token an EnhancedDecoder that is about to resolve one reads, and the
\* token it looks up: the token itself when the list holds it, the token
\* without its last character when not
DecoderToken(s) ==
    IF s.exhausted THEN s.stega_text[s.index + 1] ELSE s.stega_text[s.index + 2]

DecoderLookup(s) ==
    IF In(DecoderToken(s), DecoderList(s)) THEN DecoderToken(s)
    ELSE ButLast(DecoderToken(s))

\* C18: addressable range at decode. When the token EnhancedDecoder resolves
\* sits at an index of its list that no code reaches (2^floor(log2 n) or
\* above), the step ends in an error and appends no bits; a step that recovers
\* an end key outside 0..25 ends in an error too.
C18_AddressableDecode ==
    [][(DecoderSelects(ed) /\ ed' # ed) =>
          /\ (/\ In(DecoderLookup(ed), DecoderList(ed))
              /\ IndexOf(DecoderList(ed), DecoderLookup(ed))
                    >= Pow2(FloorLog2(Len(DecoderList(ed)))))
                => (ed'.raised # "" /\ ed'.output = ed.output)
          /\ (ed'.endkey # ed.endkey /\ ed'.endkey \notin 0..25)
                => ed'.raised # ""
      ]_vars

\* an ExistingEncoder about to take a mid-chain step at a context with more
\* than one candidate
ExistingSelects(s) ==
    /\ Live(s) /\ ~s.finished /\ ~s.exhausted
    /\ HasGram(model, s.current_gram)
    /\ Len(Items(model, s.current_gram)) > 1

\* the lengths i >= 1 for which the first i bits of the buffer are a code word
CodePrefixes(book, bitstream) ==
    {i \in 1..Len(bitstream) : \E c \in book : c.code = Take(bitstream, i)}

\* C19: Existing longest-prefix selection. At a mid-chain step with more than
\* one candidate ExistingEncoder takes the longest prefix of the remaining
\* buffer that is a code word, the whole buffer included, emits its token (END
\* ends the chain) and consumes exactly that prefix; only when no prefix of
\* length 1 or more is a code word does it emit the literal-escape token and
\* consume the whole buffer.
C19_LongestPrefix ==
    [][(ExistingSelects(xe) /\ xe' # xe) =>
          LET book == huffman_codebook(Items(model, xe.current_gram))
              hits == CodePrefixes(book, xe.bitstream)
              longest == CHOOSE i \in hits : \A j \in hits : j <= i
              token == TokenOf(book, Take(xe.bitstream, longest))
          IN  IF hits # {}
              THEN /\ xe'.bitstream = Drop(xe.bitstream, longest)
                   /\ xe'.output_tokens = IF token = END THEN xe.output_tokens
                                          ELSE Append(xe.output_tokens, token)
                   /\ xe'.exhausted <=> token = END
              ELSE /\ xe'.bitstream = <<>>
                   /\ xe'.output_tokens =
                          Append(xe.output_tokens, <<60>> \o xe.bitstream \o <<62>>)
      ]_vars

\* an ExistingDecoder about to take a mid-chain step from a token that ends in
\* . ? ! at a context that has END among its candidates
AfterPunctuation(s) ==
    /\ Live(s) /\ ~s.exhausted
    /\ s.index < Len(s.stega_text) - 1
    /\ HasGram(model, s.current_gram)
    /\ EndsSentence(s.current_gram[2])
    /\ In(END, KeysOf(Items(model, s.current_gram)))

\* C20 as stated: punctuation-forced termination. After a token ending in
\* . ? ! at a context with END among its candidates, ExistingDecoder's step
\* ends the chain (exhausted set, the next token taken as an entry point by the
\* following step) whatever the next token is, with one candidate and with
\* more than one.
C20_PunctuationForced ==
    [][(AfterPunctuation(xd) /\ xd' # xd) =>
          /\ xd'.exhausted /\ xd'.raised = ""
          /\ xd'.index = xd.index + 1
      ]_vars

\* C20, amended: with one candidate the chain is ended whatever the next token
\* is; with more than one it is ended only if the next token is not one of the
\* candidates, and a next token that is one continues the chain with its code
\* word appended. A step taken with exhausted set makes the token at index the
\* entry point.
C20_PunctuationForcedUnlessCandidate ==
    [][/\ (AfterPunctuation(xd) /\ xd' # xd) =>
             LET items == Items(model, xd.current_gram)
                 next_token == xd.stega_text[xd.index + 2]
             IN  IF Len(items) > 1 /\ In(next_token, KeysOf(items))
                 THEN /\ ~xd'.exhausted /\ xd'.raised = ""
                      /\ xd'.index = xd.index + 1
                      /\ xd'.current_gram = SlideGram(xd.current_gram, next_token)
                      /\ xd'.output = xd.output \o CodeOf(huffman_codebook(items), next_token)
                 ELSE /\ xd'.exhausted /\ xd'.raised = ""
                      /\ xd'.index = xd.index + 1
       /\ (Live(xd) /\ xd.exhausted /\ ~xd.finished /\ xd' # xd) =>
             /\ ~xd'.exhausted /\ xd'.index = xd.index
             /\ xd'.current_gram = <<BEGIN, xd.stega_text[xd.index + 1]>>
      ]_vars

\* the chain ended after "p." at the context that holds END and "q", the next
\* token not being "q"; the token after it then taken as an entry point
C20_Witness ==
    /\ xd.cls # "none" /\ xd.raised = ""
    /\ model = ModelPunct
    /\ xd.index = 2 /\ ~xd.exhausted
    /\ xd.stega_text[1] = tX /\ xd.stega_text[2] = tPdot
    /\ xd.current_gram = <<BEGIN, xd.stega_text[3]>>

\* a session of the Existing family in mid-chain at a context with exactly one
\* candidate
SingleCandidate(s) ==
    /\ Live(s) /\ ~s.finished /\ ~s.exhausted
    /\ HasGram(model, s.current_gram)
    /\ Len(Items(model, s.current_gram)) = 1

\* C21: Existing single-candidate step. At a context with exactly one
\* candidate ExistingEncoder.step() selects that candidate (emits it, or ends
\* the chain when it is END) and leaves the bit buffer as it is;
\* ExistingDecoder.step() at such a context appends no bits and moves on one
\* token.
C21_SingleCandidateStep ==
    [][/\ (SingleCandidate(xe) /\ xe' # xe) =>
             LET only == Items(model, xe.current_gram)[1].tok
             IN  /\ xe'.bitstream = xe.bitstream
                 /\ xe'.raised = "" /\ ~xe'.finished
                 /\ IF only = END
                    THEN xe'.exhausted /\ xe'.output_tokens = xe.output_tokens
                    ELSE /\ ~xe'.exhausted
                         /\ xe'.output_tokens = Append(xe.output_tokens, only)
                         /\ xe'.current_gram = SlideGram(xe.current_gram, only)
       /\ (SingleCandidate(xd) /\ xd.index < Len(xd.stega_text) - 1 /\ xd' # xd) =>
             /\ xd'.output = xd.output
             /\ xd'.raised = ""
             /\ xd'.index = xd.index + 1
      ]_vars

\* "y" has the one candidate "p.": the encoder emitted it with its payload
\* untouched, and the decoder has passed it with nothing appended
C21_Witness ==
    /\ ExistingPipeline
    /\ model = ModelPunct
    /\ Len(ghost.payload) > 0
    /\ Len(xe.output_tokens) >= 4
    /\ xe.output_tokens[1] = tY /\ xe.output_tokens[2] = tPdot
    /\ xd.raised = "" /\ xd.index = 1 /\ xd.current_gram = <<tY, tPdot>>
    /\ xd.output = <<>>

\* C22: the Existing encoder finishes only through the literal escape. On a
\* non-empty payload the step that sets finished emits the token <bits> made
\* of all the bits that were left, at least one; so a finished ExistingEncoder
\* has an empty buffer and a literal-escape token as its last token.
C22_FinishOnlyByEscape ==
    /\ [](xe.cls # "none" /\ xe.bitstream_length > 0
            => /\ xe.finished <=> Len(xe.bitstream) = 0
               /\ xe.finished =>
                     /\ Len(xe.output_tokens) > 0
                     /\ IsLiteralEscape(LastOf(xe.output_tokens)))
    /\ [][(xe.cls # "none" /\ xe.bitstream_length > 0 /\ ~xe.finished /\ xe'.finished)
            => /\ Len(xe.bitstream) >= 1
               /\ xe'.output_tokens =
                      Append(xe.output_tokens, <<60>> \o xe.bitstream \o <<62>>)
      ]_vars

\* a three-bit payload whose first two bits went out as code words and whose
\* last bit went out as an escape
C22_Witness ==
    /\ xe.cls # "none" /\ xe.finished
    /\ Len(ghost.payload) = 3
    /\ xe.c >= 4
    /\ LastOf(xe.output_tokens) = <<60, ghost.payload[3], 62>>


(***************************************************************************)
(* Decoder progress.                                                       *)
(***************************************************************************)
\* the index of a decoder session is one of its text's positions
IndexInText(s) ==
    s.cls # "none" => /\ Len(s.stega_text) >= 1
                      /\ 0 <= s.index
                      /\ s.index <= Len(s.stega_text) - 1

\* solve() has made calls step() calls on s: at most 2n, and fewer while it
\* still runs
CallsBounded(s, calls) ==
    s.cls # "none" => /\ calls <= 2 * Len(s.stega_text)
                      /\ Live(s) /\ ~s.finished => calls < 2 * Len(s.stega_text)

\* one step() call of solve() from s to t: a mid-chain call starts below the
\* last index, and a call that returns a progress value has incremented index
\* or has cleared exhausted
DecoderAdvance(s, t) ==
    /\ ~s.exhausted /\ ~t.finished => s.index < Len(s.stega_text) - 1
    /\ t.raised = "" /\ ~t.finished =>
          \/ t.index = s.index + 1
          \/ s.exhausted /\ ~t.exhausted /\ t.index = s.index

\* C23: decoder progress and termination. For EnhancedDecoder and
\* ExistingDecoder on a text of n >= 1 tokens, 0 <= index <= n-1 in every
\* state; a mid-chain step is only taken with index < n-1; every step that
\* neither finishes nor fails increments index or turns exhausted from true
\* to false; and solve() ends, finished or in an error, within 2n step() calls.
C23_DecoderProgress ==
    /\ [](/\ IndexInText(ed) /\ CallsBounded(ed, ghost.ed_calls)
          /\ IndexInText(xd) /\ CallsBounded(xd, ghost.xd_calls))
    /\ [][/\ ghost.ed_calls' = ghost.ed_calls + 1 => DecoderAdvance(ed, ed')
          /\ ghost.xd_calls' = ghost.xd_calls + 1 => DecoderAdvance(xd, xd')]_vars

\* an EnhancedDecoder that has crossed a chain boundary after each token of a
\* text of three and has finished on its sixth call
C23_Witness ==
    /\ ed.cls # "none" /\ ed.finished /\ ed.raised = ""
    /\ Len(ed.stega_text) = 3
    /\ ed.index = 2
    /\ ghost.ed_calls = 6


(***************************************************************************)
(* Empty input.                                                            *)
(***************************************************************************)
\* an encoder session constructed with an empty bit sequence
EmptyPayload(s) == s.cls # "none" /\ s.bitstream_length = 0

\* what a session of an empty payload has shown: no progress value returned,
\* never finished without an error
NoStegoText(s, r) ==
    EmptyPayload(s) => /\ r.kind \in {"NoCall", "raised"}
                       /\ ~(Live(s) /\ s.finished)

\* C24: empty input. The first step() call of an EnhancedEncoder or
\* ExistingEncoder session constructed with an empty bit sequence ends in an
\* error (ValueError where the index is parsed from zero bits or the list is
\* empty, IndexError where there is no entry point to draw, ZeroDivisionError
\* at the progress fraction otherwise) and no call returns a progress value,
\* so generate() never leaves its loop with a stego text.
C24_EmptyInput ==
    /\ [](NoStegoText(ee, ret.ee) /\ NoStegoText(xe, ret.xe))
    /\ [][/\ EmptyPayload(ee) /\ ee' # ee =>
                /\ ret'.ee = Raised
                /\ ee'.raised \in {"ValueError", "ZeroDivisionError"}
                /\ ee'.raised = "ZeroDivisionError" <=> Len(ee.entrypoints) = 1
          /\ EmptyPayload(xe) /\ xe' # xe =>
                /\ ret'.xe = Raised
                /\ xe'.raised \in {"IndexError", "ZeroDivisionError"}
                /\ xe'.raised = "ZeroDivisionError" <=> Len(xe.entrypoints) > 0]_vars

\* an ExistingEncoder of the empty payload whose first call has emitted an
\* entry token, set finished and failed at the progress fraction
C24_Witness ==
    /\ EmptyPayload(xe)
    /\ ret.xe = Raised
    /\ xe.raised = "ZeroDivisionError"
    /\ xe.finished
    /\ Len(xe.output_tokens) = 1

====
